---------------------------- MODULE Spec2Model ----------------------------
(***************************************************************************)
(* Model of the Pod-descriptor validator.                                  *)
(*                                                                         *)
(* Two validators live in the repository:                                  *)
(*   - the collect-all one, validateYAML(data, filename) []string, with    *)
(*     the Validator methods (src/main.go, lines 42-383), and              *)
(*   - the fail-fast one, validateYAML(data) error, over typed structs     *)
(*     (src/unnamed/part_000).                                             *)
(*                                                                         *)
(* A YAML document is a tree of tagged values.  Strings are tuples of      *)
(* one-character strings, so that prefix, suffix, substring and regular    *)
(* expression checks are computed, not assumed.  A Go map has no order:    *)
(* it is a function from keys to values, and `range` over it may visit     *)
(* the keys in any order, so every validator is an operator that returns   *)
(* the SET of results the build can produce.                               *)
(***************************************************************************)
EXTENDS Integers, Sequences, FiniteSets, TLC

VARIABLES doc, filename, edits, results, ff

vars == <<doc, filename, edits, results, ff>>

(***************************************************************************)
(* Bounds of the model.                                                    *)
(***************************************************************************)
MaxEdits == 1
MaxRuns == 2

(***************************************************************************)
(* String literals of the source and of the inputs, as character tuples.   *)
(***************************************************************************)
RegistryPrefix == <<"r", "e", "g", "i", "s", "t", "r", "y", ".", "b", "i", "g", "b", "r", "o", "t", "h", "e", "r", ".", "i", "o", "/">>
ImgOk == <<"r", "e", "g", "i", "s", "t", "r", "y", ".", "b", "i", "g", "b", "r", "o", "t", "h", "e", "r", ".", "i", "o", "/", "a", "p", "p", ":", "v", "1">>
ImgNoTag == <<"r", "e", "g", "i", "s", "t", "r", "y", ".", "b", "i", "g", "b", "r", "o", "t", "h", "e", "r", ".", "i", "o", "/", "a", "p", "p">>
ImgOtherDomain == <<"d", "o", "c", "k", "e", "r", ".", "i", "o", "/", "a", "p", "p", ":", "v", "1">>
ImgBare == <<"n", "g", "i", "n", "x">>
Sv1 == <<"v", "1">>
Sv2 == <<"v", "2">>
SPod == <<"P", "o", "d">>
SDeployment == <<"D", "e", "p", "l", "o", "y", "m", "e", "n", "t">>
Sweb == <<"w", "e", "b">>
Sweb_app == <<"w", "e", "b", "_", "a", "p", "p">>
Sdb == <<"d", "b">>
SMyApp == <<"M", "y", "A", "p", "p">>
Slinux == <<"l", "i", "n", "u", "x">>
Swindows == <<"w", "i", "n", "d", "o", "w", "s">>
Smac == <<"m", "a", "c">>
STCP == <<"T", "C", "P">>
SUDP == <<"U", "D", "P">>
SSCTP == <<"S", "C", "T", "P">>
Shealth == <<"/", "h", "e", "a", "l", "t", "h">>
Srel == <<"h", "e", "a", "l", "t", "h">>
S512Mi == <<"5", "1", "2", "M", "i">>
S512 == <<"5", "1", "2">>
S512MB == <<"5", "1", "2", "M", "B">>
Sprod == <<"p", "r", "o", "d">>
SEmpty == <<>>

(***************************************************************************)
(* The untyped document tree yaml.v3 hands to the validators.  Every       *)
(* scalar keeps its source text (raw) beside its resolved value.  A float  *)
(* carries h, twice its value, so that halves are exact.                   *)
(***************************************************************************)
Str(s) == [t |-> "str", raw |-> s]
IntV(n, raw) == [t |-> "int", n |-> n, raw |-> raw]
FloatV(h, raw) == [t |-> "float", h |-> h, raw |-> raw]
BoolV == [t |-> "bool", raw |-> <<"t", "r", "u", "e">>]
NullV == [t |-> "null", raw |-> <<"~">>]
\* An integer above the int64 range, which yaml.v3 resolves to a uint64.
UintV == [t |-> "uint", raw |-> <<"1", "8", "4", "4", "6", "7", "4", "4", "0", "7", "3", "7", "0", "9", "5", "5", "1", "6", "1", "5">>]
MapV(m) == [t |-> "map", m |-> m]
SeqV(items) == [t |-> "seq", items |-> items]
EmptyMap == [k \in {} |-> NullV]
\* Bytes that are not well-formed YAML.
Malformed == [t |-> "bad"]

(***************************************************************************)
(* String functions of the Go library, on character tuples.                *)
(***************************************************************************)
\* strings.HasPrefix
HasPrefix(s, p) == Len(s) >= Len(p) /\ SubSeq(s, 1, Len(p)) = p
\* strings.HasSuffix
HasSuffix(s, p) == Len(s) >= Len(p) /\ SubSeq(s, Len(s) - Len(p) + 1, Len(s)) = p
\* strings.Contains(s, c) for a one-character c
Contains(s, c) == \E i \in 1..Len(s) : s[i] = c

LowerLetters == {"a", "b", "c", "d", "e", "f", "g", "h", "i", "j", "k", "l", "m",
                 "n", "o", "p", "q", "r", "s", "t", "u", "v", "w", "x", "y", "z"}

\* A slip: the underscore is taken wherever a letter is, as ^[a-z_]+$ does.
SnakeStep_UnderscoreAnywhere(q, c) ==
    CASE q = "fail" -> "fail"
      [] c \in LowerLetters \cup {"_"} -> "word"
      [] OTHER -> "fail"

\* One step of the automaton of ^[a-z]+(_[a-z]+)*$ : "start" before any
\* character, "word" inside a run of letters, "sep" right after an
\* underscore, "fail" once the string cannot match.
SnakeStep(q, c) ==
    CASE q = "fail" -> "fail"
      [] c \in LowerLetters -> "word"
      [] c = "_" /\ q = "word" -> "sep"
      [] OTHER -> "fail"

RECURSIVE SnakeRun(_, _)
SnakeRun(q, s) == IF s = <<>> THEN q ELSE SnakeRun(SnakeStep(q, Head(s)), Tail(s))

\* snakeCaseRegex.MatchString
MatchSnakeCase(s) == SnakeRun("start", s) = "word"

\* filepath.Base of a name given as its pieces, "/" being a piece.
Base(f) ==
    LET seps == {i \in 1..Len(f) : f[i] = "/"}
        last == CHOOSE i \in seps : \A j \in seps : j <= i
    IN  IF seps = {} THEN f ELSE SubSeq(f, last + 1, Len(f))

\* %d of a small index
Itoa(i) == <<<<"0">>, <<"1">>, <<"2">>, <<"3">>, <<"4">>>>[i + 1]

\* %v of a value that is not a mapping
FmtV(v) ==
    CASE v.t = "null" -> <<"<", "n", "i", "l", ">">>
      [] v.t = "seq" -> <<"[", "]">>
      [] OTHER -> v.raw

(***************************************************************************)
(* A diagnostic.  Its format string is written in three parts, which      *)
(* concatenate to the literal of the source: the locator (loc), the field  *)
(* path the message spells out (subject, "" when it spells none) and the   *)
(* rest (pred).  args are the arguments, each a tuple of string pieces.    *)
(* `at` is not part of the string: it is the field path of the check that  *)
(* produced the diagnostic.                                                *)
(***************************************************************************)
Diag(loc, subject, pred, args, at) ==
    [loc |-> loc, subject |-> subject, pred |-> pred, args |-> args, at |-> at]

\* The string the caller sees.
Text(d) == [loc |-> d.loc, subject |-> d.subject, pred |-> d.pred, args |-> d.args]

Texts(ds) == [i \in 1..Len(ds) |-> Text(ds[i])]

\* Sets of diagnostic lists: no diagnostic, one diagnostic, one after the other.
NoErr == {<<>>}
OneErr(d) == {<<d>>}
Cat(A, B) == {a \o b : a \in A, b \in B}

\* A slip: the list is walked from its last element to its first.
RECURSIVE RangeList_Reversed(_, _, _)
RangeList_Reversed(i, n, f) ==
    IF i > n THEN NoErr ELSE Cat(RangeList_Reversed(i + 1, n, f), f[i])

\* `for i, x := range list`: the index order.
RECURSIVE RangeList(_, _, _)
RangeList(i, n, f) == IF i > n THEN NoErr ELSE Cat(f[i], RangeList(i + 1, n, f))

\* `for key, value := range aMap`: Go leaves the order unspecified.
RECURSIVE RangeMap(_, _)
RangeMap(K, f) ==
    IF K = {} THEN NoErr
    ELSE UNION {Cat(f[k], RangeMap(K \ {k}, f)) : k \in K}


(***************************************************************************)
(* The collect-all validator (src/main.go).  Every operator returns the    *)
(* set of diagnostic lists the method can append to v.errors.              *)
(***************************************************************************)
PortLimit == 65536

\* A path element for a sequence index.
Ix(i) == Itoa(i)[1]

ContainerAt(index) == <<"spec", "containers", Ix(index)>>

\* val <= 0 || val >= 65536, for an int and for a float64 (h is twice val)
IntOutOfRange(n) == n <= 0 \/ n >= PortLimit
FloatOutOfRange(h) == h <= 0 \/ h >= 2 * PortLimit

Validator_validateContainerPort(port, containerIndex, portIndex, filename_) ==
    LET at == ContainerAt(containerIndex) \o <<"ports", Ix(portIndex)>>
        a == <<filename_, Itoa(containerIndex), Itoa(portIndex)>>
        cp == port["containerPort"]
        containerPortErrs ==
            IF "containerPort" \notin DOMAIN port
            THEN OneErr(Diag("%s: ", "container[%d].ports[%d].containerPort", " is required", a, at \o <<"containerPort">>))
            ELSE CASE cp.t = "int" ->
                        IF IntOutOfRange(cp.n)
                        THEN OneErr(Diag("%s: ", "container[%d].ports[%d].containerPort", " value out of range", a, at \o <<"containerPort">>))
                        ELSE NoErr
                   [] cp.t = "float" ->
                        IF FloatOutOfRange(cp.h)
                        THEN OneErr(Diag("%s: ", "container[%d].ports[%d].containerPort", " value out of range", a, at \o <<"containerPort">>))
                        ELSE NoErr
                   [] OTHER ->
                        OneErr(Diag("%s: ", "container[%d].ports[%d].containerPort", " must be integer", a, at \o <<"containerPort">>))
        pr == port["protocol"]
        protocolErrs ==
            IF "protocol" \notin DOMAIN port THEN NoErr
            ELSE IF pr.t = "str"
                 THEN IF pr.raw # STCP /\ pr.raw # SUDP
                      THEN OneErr(Diag("%s: ", "container[%d].ports[%d].protocol", " must be 'TCP' or 'UDP'", a, at \o <<"protocol">>))
                      ELSE NoErr
                 ELSE OneErr(Diag("%s: ", "container[%d].ports[%d].protocol", " must be string", a, at \o <<"protocol">>))
    IN  Cat(containerPortErrs, protocolErrs)

\* The body of the loop of validateResourceRequirements, for one entry.
ResourceEntryErrs(key, value, containerIndex, resourceType, filename_) ==
    LET at == ContainerAt(containerIndex) \o <<"resources", resourceType, key>>
        filenameOnly == Base(filename_)
    IN  CASE key = "cpu" ->
                CASE value.t = "int" -> NoErr
                  [] value.t = "float" -> NoErr
                  [] value.t = "str" -> OneErr(Diag("%s:27 ", "cpu", " must be int", <<filenameOnly>>, at))
                  [] OTHER -> OneErr(Diag("%s:27 ", "cpu", " must be int", <<filenameOnly>>, at))
          [] key = "memory" ->
                IF value.t = "str"
                THEN IF HasSuffix(value.raw, <<"G", "i">>) \/ HasSuffix(value.raw, <<"M", "i">>)
                        \/ HasSuffix(value.raw, <<"K", "i">>)
                     THEN NoErr
                     ELSE OneErr(Diag("%s: ", "container[%d].resources.%s.memory", " must end with Gi, Mi, or Ki",
                                      <<filename_, Itoa(containerIndex), <<resourceType>>>>, at))
                ELSE OneErr(Diag("%s: ", "container[%d].resources.%s.memory", " must be string",
                                 <<filename_, Itoa(containerIndex), <<resourceType>>>>, at))
          [] OTHER ->
                OneErr(Diag("%s: ", "container[%d].resources.%s.%s", ": unknown resource type",
                            <<filename_, Itoa(containerIndex), <<resourceType>>, <<key>>>>, at))

Validator_validateResourceRequirements(resources, containerIndex, resourceType, filename_) ==
    RangeMap(DOMAIN resources,
             [key \in DOMAIN resources |->
                ResourceEntryErrs(key, resources[key], containerIndex, resourceType, filename_)])

Validator_validateResources(resources, containerIndex, filename_) ==
    LET at == ContainerAt(containerIndex) \o <<"resources">>
        a == <<filename_, Itoa(containerIndex)>>
        requestsErrs ==
            IF "requests" \notin DOMAIN resources THEN NoErr
            ELSE IF resources["requests"].t = "map"
                 THEN Validator_validateResourceRequirements(resources["requests"].m, containerIndex, "requests", filename_)
                 ELSE OneErr(Diag("%s: ", "container[%d].resources.requests", " must be an object", a, at \o <<"requests">>))
        limitsErrs ==
            IF "limits" \notin DOMAIN resources THEN NoErr
            ELSE IF resources["limits"].t = "map"
                 THEN Validator_validateResourceRequirements(resources["limits"].m, containerIndex, "limits", filename_)
                 ELSE OneErr(Diag("%s: ", "container[%d].resources.limits", " must be an object", a, at \o <<"limits">>))
    IN  Cat(requestsErrs, limitsErrs)

Validator_validateProbe(probe, containerIndex, probeType, filename_) ==
    LET at == ContainerAt(containerIndex) \o <<probeType, "httpGet">>
        filenameOnly == Base(filename_)
        a == <<filenameOnly, Itoa(containerIndex), <<probeType>>>>
        httpGet == probe["httpGet"]
        path == httpGet.m["path"]
        pathErrs ==
            IF "path" \notin DOMAIN httpGet.m
            THEN OneErr(Diag("%s: ", "container[%d].%s.httpGet.path", " is required", a, at \o <<"path">>))
            ELSE IF path.t = "str"
                 THEN IF ~HasPrefix(path.raw, <<"/">>)
                      THEN OneErr(Diag("%s: ", "container[%d].%s.httpGet.path", " must be absolute", a, at \o <<"path">>))
                      ELSE NoErr
                 ELSE OneErr(Diag("%s: ", "container[%d].%s.httpGet.path", " must be string", a, at \o <<"path">>))
        port == httpGet.m["port"]
        portErrs ==
            IF "port" \notin DOMAIN httpGet.m
            THEN OneErr(Diag("%s: ", "container[%d].%s.httpGet.port", " is required", a, at \o <<"port">>))
            ELSE CASE port.t = "int" ->
                        IF IntOutOfRange(port.n)
                        THEN OneErr(Diag("%s:20 ", "port", " value out of range", <<filenameOnly>>, at \o <<"port">>))
                        ELSE NoErr
                   [] port.t = "float" ->
                        IF FloatOutOfRange(port.h)
                        THEN OneErr(Diag("%s:20 ", "port", " value out of range", <<filenameOnly>>, at \o <<"port">>))
                        ELSE NoErr
                   [] OTHER ->
                        OneErr(Diag("%s: ", "container[%d].%s.httpGet.port", " must be integer", a, at \o <<"port">>))
    IN  IF "httpGet" \notin DOMAIN probe
        THEN OneErr(Diag("%s: ", "container[%d].%s.httpGet", " is required", a, at))
        ELSE IF httpGet.t = "map"
             THEN Cat(pathErrs, portErrs)
             ELSE OneErr(Diag("%s: ", "container[%d].%s.httpGet", " must be an object", a, at))

Validator_validateContainer(container, index, filename_) ==
    LET at == ContainerAt(index)
        a == <<filename_, Itoa(index)>>
        name == container["name"]
        nameErrs ==
            IF "name" \notin DOMAIN container
            THEN OneErr(Diag("%s: ", "container[%d].name", " is required", a, at \o <<"name">>))
            ELSE IF name.t = "str"
                 THEN IF ~MatchSnakeCase(name.raw)
                      THEN OneErr(Diag("%s: ", "container[%d].name", " must be in snake_case format", a, at \o <<"name">>))
                      ELSE NoErr
                 ELSE OneErr(Diag("%s: ", "container[%d].name", " must be string", a, at \o <<"name">>))
        image == container["image"]
        imageErrs ==
            IF "image" \notin DOMAIN container
            THEN OneErr(Diag("%s: ", "container[%d].image", " is required", a, at \o <<"image">>))
            ELSE IF image.t = "str"
                 THEN Cat(IF ~HasPrefix(image.raw, RegistryPrefix)
                          THEN OneErr(Diag("%s: ", "container[%d].image", " must be in domain registry.bigbrother.io", a, at \o <<"image">>))
                          ELSE NoErr,
                          IF ~Contains(image.raw, ":")
                          THEN OneErr(Diag("%s: ", "container[%d].image", " must have a version tag", a, at \o <<"image">>))
                          ELSE NoErr)
                 ELSE OneErr(Diag("%s: ", "container[%d].image", " must be string", a, at \o <<"image">>))
        ports == container["ports"]
        portsErrs ==
            IF "ports" \notin DOMAIN container THEN NoErr
            ELSE IF ports.t = "seq"
                 THEN RangeList(1, Len(ports.items),
                        [i \in 1..Len(ports.items) |->
                            IF ports.items[i].t = "map"
                            THEN Validator_validateContainerPort(ports.items[i].m, index, i - 1, filename_)
                            ELSE OneErr(Diag("%s: ", "container[%d].ports[%d]", " must be an object",
                                             <<filename_, Itoa(index), Itoa(i - 1)>>,
                                             at \o <<"ports", Ix(i - 1)>>))])
                 ELSE OneErr(Diag("%s: ", "container[%d].ports", " must be an array", a, at \o <<"ports">>))
        resources == container["resources"]
        resourcesErrs ==
            IF "resources" \notin DOMAIN container
            THEN OneErr(Diag("%s: ", "container[%d].resources", " is required", a, at \o <<"resources">>))
            ELSE IF resources.t = "map"
                 THEN Validator_validateResources(resources.m, index, filename_)
                 ELSE OneErr(Diag("%s: ", "container[%d].resources", " must be an object", a, at \o <<"resources">>))
        probeErrs(probeType) ==
            IF probeType \notin DOMAIN container THEN NoErr
            ELSE IF container[probeType].t = "map"
                 THEN Validator_validateProbe(container[probeType].m, index, probeType, filename_)
                 ELSE IF probeType = "readinessProbe"
                      THEN OneErr(Diag("%s: ", "container[%d].readinessProbe", " must be an object", a, at \o <<probeType>>))
                      ELSE OneErr(Diag("%s: ", "container[%d].livenessProbe", " must be an object", a, at \o <<probeType>>))
    IN  Cat(nameErrs, Cat(imageErrs, Cat(portsErrs, Cat(resourcesErrs,
            Cat(probeErrs("readinessProbe"), probeErrs("livenessProbe"))))))

Validator_validateOS(os, filename_) ==
    LET filenameOnly == Base(filename_)
        at == <<"spec", "os">>
        name == os.m["name"]
    IN  IF os.t = "map"
        THEN IF "name" \notin DOMAIN os.m
             THEN OneErr(Diag("%s: ", "os.name", " is required", <<filename_>>, at \o <<"name">>))
             ELSE IF name.t = "str"
                  THEN IF name.raw # Slinux /\ name.raw # Swindows
                       THEN OneErr(Diag("%s:10 ", "os", " has unsupported value '%s'", <<filenameOnly, name.raw>>, at \o <<"name">>))
                       ELSE NoErr
                  ELSE OneErr(Diag("%s: ", "os.name", " must be string", <<filename_>>, at \o <<"name">>))
        ELSE IF os.t = "str"
             THEN OneErr(Diag("%s:10 ", "os", " has unsupported value '%s'", <<filenameOnly, os.raw>>, at))
             ELSE OneErr(Diag("%s:10 ", "os", " has unsupported value '%v'", <<filenameOnly, FmtV(os)>>, at))

Validator_validateSpec(spec, filename_) ==
    LET containers == spec["containers"]
        osErrs ==
            IF "os" \in DOMAIN spec THEN Validator_validateOS(spec["os"], filename_) ELSE NoErr
        containersErrs ==
            IF "containers" \notin DOMAIN spec
            THEN OneErr(Diag("%s: ", "spec.containers", " is required", <<filename_>>, <<"spec", "containers">>))
            ELSE IF containers.t = "seq"
                 THEN Cat(IF Len(containers.items) = 0
                          THEN OneErr(Diag("%s: ", "", "at least one container is required", <<filename_>>, <<"spec", "containers">>))
                          ELSE NoErr,
                          RangeList(1, Len(containers.items),
                            [i \in 1..Len(containers.items) |->
                                IF containers.items[i].t = "map"
                                THEN Validator_validateContainer(containers.items[i].m, i - 1, filename_)
                                ELSE OneErr(Diag("%s: ", "spec.containers[%d]", " must be an object",
                                                 <<filename_, Itoa(i - 1)>>, ContainerAt(i - 1)))]))
                 ELSE OneErr(Diag("%s: ", "spec.containers", " must be an array", <<filename_>>, <<"spec", "containers">>))
    IN  Cat(osErrs, containersErrs)

Validator_validateMetadata(metadata, filename_) ==
    LET filenameOnly == Base(filename_)
        name == metadata["name"]
        nameErrs ==
            IF "name" \notin DOMAIN metadata
            THEN OneErr(Diag("%s:4 ", "name", " is required", <<filenameOnly>>, <<"metadata", "name">>))
            ELSE IF name.t # "str"
                 THEN OneErr(Diag("%s: ", "metadata.name", " must be string", <<filename_>>, <<"metadata", "name">>))
                 ELSE IF name.raw = <<>>
                      THEN OneErr(Diag("%s:4 ", "name", " is required", <<filenameOnly>>, <<"metadata", "name">>))
                      ELSE NoErr
        namespaceErrs ==
            IF "namespace" \in DOMAIN metadata /\ metadata["namespace"].t # "str"
            THEN OneErr(Diag("%s: ", "metadata.namespace", " must be string", <<filename_>>, <<"metadata", "namespace">>))
            ELSE NoErr
        labels == metadata["labels"]
        labelsErrs ==
            IF "labels" \notin DOMAIN metadata THEN NoErr
            ELSE IF labels.t = "map"
                 THEN RangeMap(DOMAIN labels.m,
                        [key \in DOMAIN labels.m |->
                            IF labels.m[key].t # "str"
                            THEN OneErr(Diag("%s: ", "metadata.labels.%s", " must be string",
                                             <<filename_, <<key>>>>, <<"metadata", "labels", key>>))
                            ELSE NoErr])
                 ELSE OneErr(Diag("%s: ", "metadata.labels", " must be an object", <<filename_>>, <<"metadata", "labels">>))
    IN  Cat(nameErrs, Cat(namespaceErrs, labelsErrs))

Validator_validateTopLevel(document, filename_) ==
    LET apiVersion == document["apiVersion"]
        apiVersionErrs ==
            IF "apiVersion" \notin DOMAIN document
            THEN OneErr(Diag("%s: ", "apiVersion", " is required", <<filename_>>, <<"apiVersion">>))
            ELSE IF apiVersion.t # "str"
                 THEN OneErr(Diag("%s: ", "apiVersion", " must be string", <<filename_>>, <<"apiVersion">>))
                 ELSE IF apiVersion.raw # Sv1
                      THEN OneErr(Diag("%s: ", "apiVersion", " must be 'v1'", <<filename_>>, <<"apiVersion">>))
                      ELSE NoErr
        kind == document["kind"]
        kindErrs ==
            IF "kind" \notin DOMAIN document
            THEN OneErr(Diag("%s: ", "kind", " is required", <<filename_>>, <<"kind">>))
            ELSE IF kind.t # "str"
                 THEN OneErr(Diag("%s: ", "kind", " must be string", <<filename_>>, <<"kind">>))
                 ELSE IF kind.raw # SPod
                      THEN OneErr(Diag("%s: ", "kind", " must be 'Pod'", <<filename_>>, <<"kind">>))
                      ELSE NoErr
        metadataErrs ==
            IF "metadata" \notin DOMAIN document
            THEN OneErr(Diag("%s: ", "metadata", " is required", <<filename_>>, <<"metadata">>))
            ELSE IF document["metadata"].t = "map"
                 THEN Validator_validateMetadata(document["metadata"].m, filename_)
                 ELSE OneErr(Diag("%s: ", "metadata", " must be an object", <<filename_>>, <<"metadata">>))
        specErrs ==
            IF "spec" \notin DOMAIN document
            THEN OneErr(Diag("%s: ", "spec", " is required", <<filename_>>, <<"spec">>))
            ELSE IF document["spec"].t = "map"
                 THEN Validator_validateSpec(document["spec"].m, filename_)
                 ELSE OneErr(Diag("%s: ", "spec", " must be an object", <<filename_>>, <<"spec">>))
    IN  Cat(apiVersionErrs, Cat(kindErrs, Cat(metadataErrs, specErrs)))

(***************************************************************************)
(* yaml.Unmarshal(data, &document) with document a map[string]interface{}: *)
(* malformed bytes and a top-level sequence or scalar are errors, an empty *)
(* (null) document leaves the map nil.                                     *)
(***************************************************************************)
UnmarshalMap(data) ==
    CASE data.t = "bad" -> [err |-> <<"y", "a", "m", "l", ":", " ", "s", "y", "n", "t", "a", "x">>]
      [] data.t = "map" -> [err |-> <<>>, document |-> data.m]
      [] data.t = "null" -> [err |-> <<>>, document |-> EmptyMap]
      [] OTHER -> [err |-> <<"y", "a", "m", "l", ":", " ", "u", "n", "m", "a", "r", "s", "h", "a", "l">>]

\* A slip: the return after the parse error is missing, and the checks run
\* on the nil map.
validateYAML_NoReturn(data, filename_) ==
    LET u == UnmarshalMap(data)
    IN  IF u.err # <<>>
        THEN Cat(OneErr(Diag("", "", "Validation failed: invalid YAML format: %v", <<u.err>>, <<>>)),
                 Validator_validateTopLevel(EmptyMap, filename_))
        ELSE Validator_validateTopLevel(u.document, filename_)

\* validateYAML(data []byte, filename string) []string
validateYAML(data, filename_) ==
    LET u == UnmarshalMap(data)
    IN  IF u.err # <<>>
        THEN OneErr(Diag("", "", "Validation failed: invalid YAML format: %v", <<u.err>>, <<>>))
        ELSE Validator_validateTopLevel(u.document, filename_)

(***************************************************************************)
(* The fail-fast validator (src/unnamed/part_000).  yaml.Unmarshal fills   *)
(* the typed structs: a missing or null field keeps its zero value, any    *)
(* scalar decodes into a string field as its source text, an int field     *)
(* takes an integer or a float without a fraction, a mapping or sequence   *)
(* where a scalar is expected (and the reverse) is a type error, and one   *)
(* type error anywhere makes Unmarshal return an error.  Keys the structs  *)
(* do not name are skipped.                                                *)
(***************************************************************************)
Field(m, key) == IF key \in DOMAIN m THEN m[key] ELSE NullV

\* a field of Go type string
DecodeString(v) ==
    CASE v.t = "null" -> [ok |-> TRUE, val |-> <<>>]
      [] v.t \in {"str", "int", "uint", "float", "bool"} -> [ok |-> TRUE, val |-> v.raw]
      [] OTHER -> [ok |-> FALSE, val |-> <<>>]

\* a field of Go type int
DecodeInt(v) ==
    CASE v.t = "null" -> [ok |-> TRUE, val |-> 0]
      [] v.t = "int" -> [ok |-> TRUE, val |-> v.n]
      [] v.t = "float" /\ v.h % 2 = 0 -> [ok |-> TRUE, val |-> v.h \div 2]
      [] OTHER -> [ok |-> FALSE, val |-> 0]

\* type ContainerPort struct
DecodeContainerPort(v) ==
    LET m == IF v.t = "map" THEN v.m ELSE EmptyMap
        cp == DecodeInt(Field(m, "containerPort"))
        pr == DecodeString(Field(m, "protocol"))
    IN  [ok |-> v.t \in {"map", "null"} /\ cp.ok /\ pr.ok,
         val |-> [ContainerPort |-> cp.val, Protocol |-> pr.val]]

\* type HTTPGetAction struct, inside type Probe struct (a *Probe field)
DecodeProbe(v) ==
    LET m == IF v.t = "map" THEN v.m ELSE EmptyMap
        g == Field(m, "httpGet")
        gm == IF g.t = "map" THEN g.m ELSE EmptyMap
        path == DecodeString(Field(gm, "path"))
        port == DecodeInt(Field(gm, "port"))
    IN  [ok |-> v.t \in {"map", "null"} /\ g.t \in {"map", "null"} /\ path.ok /\ port.ok,
         val |-> [isNil |-> v.t = "null",
                  HTTPGet |-> [Path |-> path.val, Port |-> port.val]]]

\* a map[string]interface{} field: the values stay untyped
DecodeAnyMap(v) ==
    [ok |-> v.t \in {"map", "null"}, val |-> IF v.t = "map" THEN v.m ELSE EmptyMap]

\* type ResourceRequirements struct
DecodeResources(v) ==
    LET m == IF v.t = "map" THEN v.m ELSE EmptyMap
        rq == DecodeAnyMap(Field(m, "requests"))
        lm == DecodeAnyMap(Field(m, "limits"))
    IN  [ok |-> v.t \in {"map", "null"} /\ rq.ok /\ lm.ok,
         val |-> [Requests |-> rq.val, Limits |-> lm.val]]

\* type Container struct
DecodeContainer(v) ==
    LET m == IF v.t = "map" THEN v.m ELSE EmptyMap
        name == DecodeString(Field(m, "name"))
        image == DecodeString(Field(m, "image"))
        pv == Field(m, "ports")
        items == IF pv.t = "seq" THEN pv.items ELSE <<>>
        ports == [j \in 1..Len(items) |-> DecodeContainerPort(items[j])]
        rp == DecodeProbe(Field(m, "readinessProbe"))
        lp == DecodeProbe(Field(m, "livenessProbe"))
        rs == DecodeResources(Field(m, "resources"))
    IN  [ok |-> /\ v.t \in {"map", "null"}
                /\ name.ok /\ image.ok
                /\ pv.t \in {"seq", "null"}
                /\ \A j \in 1..Len(items) : ports[j].ok
                /\ rp.ok /\ lp.ok /\ rs.ok,
         val |-> [Name |-> name.val, Image |-> image.val,
                  Ports |-> [j \in 1..Len(items) |-> ports[j].val],
                  ReadinessProbe |-> rp.val, LivenessProbe |-> lp.val,
                  Resources |-> rs.val]]

\* type ObjectMeta struct
DecodeMetadata(v) ==
    LET m == IF v.t = "map" THEN v.m ELSE EmptyMap
        name == DecodeString(Field(m, "name"))
        ns == DecodeString(Field(m, "namespace"))
        lv == Field(m, "labels")
        lm == IF lv.t = "map" THEN lv.m ELSE EmptyMap
    IN  [ok |-> /\ v.t \in {"map", "null"}
                /\ name.ok /\ ns.ok
                /\ lv.t \in {"map", "null"}
                /\ \A k \in DOMAIN lm : DecodeString(lm[k]).ok,
         val |-> [Name |-> name.val]]

\* type PodSpec struct, with its *PodOS field
DecodeSpec(v) ==
    LET m == IF v.t = "map" THEN v.m ELSE EmptyMap
        ov == Field(m, "os")
        om == IF ov.t = "map" THEN ov.m ELSE EmptyMap
        oname == DecodeString(Field(om, "name"))
        cv == Field(m, "containers")
        items == IF cv.t = "seq" THEN cv.items ELSE <<>>
        cs == [i \in 1..Len(items) |-> DecodeContainer(items[i])]
    IN  [ok |-> /\ v.t \in {"map", "null"}
                /\ ov.t \in {"map", "null"} /\ oname.ok
                /\ cv.t \in {"seq", "null"}
                /\ \A i \in 1..Len(items) : cs[i].ok,
         val |-> [OS |-> [isNil |-> ov.t = "null", Name |-> oname.val],
                  Containers |-> [i \in 1..Len(items) |-> cs[i].val]]]

\* yaml.Unmarshal(data, &pod) with pod a Pod
UnmarshalPod(data) ==
    LET m == IF data.t = "map" THEN data.m ELSE EmptyMap
        av == DecodeString(Field(m, "apiVersion"))
        kd == DecodeString(Field(m, "kind"))
        md == DecodeMetadata(Field(m, "metadata"))
        sp == DecodeSpec(Field(m, "spec"))
    IN  CASE data.t = "bad" -> [err |-> <<"y", "a", "m", "l", ":", " ", "s", "y", "n", "t", "a", "x">>]
          [] data.t \in {"map", "null"} /\ av.ok /\ kd.ok /\ md.ok /\ sp.ok ->
                [err |-> <<>>,
                 pod |-> [APIVersion |-> av.val, Kind |-> kd.val,
                          Metadata |-> md.val, Spec |-> sp.val]]
          [] OTHER -> [err |-> <<"y", "a", "m", "l", ":", " ", "u", "n", "m", "a", "r", "s", "h", "a", "l">>]

\* The nil error.
Nil == [loc |-> "", subject |-> "", pred |-> "nil", args |-> <<>>, at |-> <<>>]

\* `if err := f(); err != nil { return err }` followed by the rest.
OrElse(A, B) == {e \in A : e # Nil} \cup (IF Nil \in A THEN B ELSE {})

\* A loop that returns at the first error, over a list.
RECURSIVE FirstInList(_, _, _)
FirstInList(i, n, f) == IF i > n THEN {Nil} ELSE OrElse(f[i], FirstInList(i + 1, n, f))

\* The same over a Go map: any entry may come first.
RECURSIVE FirstInMap(_, _)
FirstInMap(K, f) ==
    IF K = {} THEN {Nil}
    ELSE UNION {OrElse(f[k], FirstInMap(K \ {k}, f)) : k \in K}

validateResource(key, value, containerIndex, resourceType) ==
    LET at == ContainerAt(containerIndex) \o <<"resources", resourceType, key>>
        a == <<Itoa(containerIndex), <<resourceType>>>>
    IN  CASE key = "cpu" ->
                IF value.t # "int"
                THEN {Diag("", "container[%d].resources.%s.cpu", " must be an integer", a, at)}
                ELSE IF value.n <= 0
                     THEN {Diag("", "container[%d].resources.%s.cpu", " must be positive", a, at)}
                     ELSE {Nil}
          [] key = "memory" ->
                IF value.t # "str"
                THEN {Diag("", "container[%d].resources.%s.memory", " must be a string", a, at)}
                ELSE IF HasSuffix(value.raw, <<"G", "i">>) \/ HasSuffix(value.raw, <<"M", "i">>)
                        \/ HasSuffix(value.raw, <<"K", "i">>)
                     THEN {Nil}
                     ELSE {Diag("", "container[%d].resources.%s.memory", " must end with Gi, Mi, or Ki", a, at)}
          [] OTHER ->
                {Diag("", "container[%d].resources.%s.%s", ": unknown resource type", a \o <<<<key>>>>, at)}

validateResources(resources, containerIndex) ==
    OrElse(FirstInMap(DOMAIN resources.Requests,
                      [key \in DOMAIN resources.Requests |->
                          validateResource(key, resources.Requests[key], containerIndex, "requests")]),
           FirstInMap(DOMAIN resources.Limits,
                      [key \in DOMAIN resources.Limits |->
                          validateResource(key, resources.Limits[key], containerIndex, "limits")]))

validateProbe(probe, containerIndex, probeType) ==
    LET at == ContainerAt(containerIndex) \o <<probeType, "httpGet">>
        a == <<Itoa(containerIndex), <<probeType>>>>
    IN  IF probe.HTTPGet.Path = <<>>
        THEN {Diag("", "container[%d].%s.httpGet.path", " is required", a, at \o <<"path">>)}
        ELSE IF ~HasPrefix(probe.HTTPGet.Path, <<"/">>)
             THEN {Diag("", "container[%d].%s.httpGet.path", " must be absolute", a, at \o <<"path">>)}
             ELSE IF probe.HTTPGet.Port <= 0 \/ probe.HTTPGet.Port >= PortLimit
                  THEN {Diag("", "container[%d].%s.httpGet.port", " must be between 1 and 65535", a, at \o <<"port">>)}
                  ELSE {Nil}

validatePort(port, index, j) ==
    LET at == ContainerAt(index) \o <<"ports", Ix(j)>>
        a == <<Itoa(index), Itoa(j)>>
    IN  IF port.ContainerPort <= 0 \/ port.ContainerPort >= PortLimit
        THEN {Diag("", "container[%d].ports[%d].containerPort", " must be between 1 and 65535", a, at \o <<"containerPort">>)}
        ELSE IF port.Protocol # <<>> /\ port.Protocol # STCP /\ port.Protocol # SUDP
             THEN {Diag("", "container[%d].ports[%d].protocol", " must be 'TCP' or 'UDP'", a, at \o <<"protocol">>)}
             ELSE {Nil}

validateContainer(container, index) ==
    LET at == ContainerAt(index)
        a == <<Itoa(index)>>
        nameErr ==
            IF container.Name = <<>>
            THEN {Diag("", "container[%d].name", " is required", a, at \o <<"name">>)}
            ELSE IF ~MatchSnakeCase(container.Name)
                 THEN {Diag("", "container[%d].name", " must be in snake_case format", a, at \o <<"name">>)}
                 ELSE {Nil}
        imageErr ==
            IF container.Image = <<>>
            THEN {Diag("", "container[%d].image", " is required", a, at \o <<"image">>)}
            ELSE IF ~HasPrefix(container.Image, RegistryPrefix)
                 THEN {Diag("", "container[%d].image", " must be in domain registry.bigbrother.io", a, at \o <<"image">>)}
                 ELSE IF ~Contains(container.Image, ":")
                      THEN {Diag("", "container[%d].image", " must have a version tag", a, at \o <<"image">>)}
                      ELSE {Nil}
        portsErr ==
            FirstInList(1, Len(container.Ports),
                        [j \in 1..Len(container.Ports) |-> validatePort(container.Ports[j], index, j - 1)])
        readinessErr ==
            IF ~container.ReadinessProbe.isNil
            THEN validateProbe(container.ReadinessProbe, index, "readinessProbe")
            ELSE {Nil}
        livenessErr ==
            IF ~container.LivenessProbe.isNil
            THEN validateProbe(container.LivenessProbe, index, "livenessProbe")
            ELSE {Nil}
    IN  OrElse(nameErr, OrElse(imageErr, OrElse(portsErr, OrElse(readinessErr,
            OrElse(livenessErr, validateResources(container.Resources, index))))))

\* validateYAML(data []byte) error
validateYAMLFailFast(data) ==
    LET u == UnmarshalPod(data)
        pod == u.pod
    IN  IF u.err # <<>>
        THEN {Diag("", "", "invalid YAML format: %v", <<u.err>>, <<>>)}
        ELSE IF pod.APIVersion # Sv1
        THEN {Diag("", "apiVersion", " must be 'v1'", <<>>, <<"apiVersion">>)}
        ELSE IF pod.Kind # SPod
        THEN {Diag("", "kind", " must be 'Pod'", <<>>, <<"kind">>)}
        ELSE IF pod.Metadata.Name = <<>>
        THEN {Diag("", "metadata.name", " is required", <<>>, <<"metadata", "name">>)}
        ELSE IF Len(pod.Spec.Containers) = 0
        THEN {Diag("", "", "at least one container is required", <<>>, <<"spec", "containers">>)}
        ELSE IF ~pod.Spec.OS.isNil /\ pod.Spec.OS.Name # Slinux /\ pod.Spec.OS.Name # Swindows
        THEN {Diag("", "os.name", " must be 'linux' or 'windows'", <<>>, <<"spec", "os", "name">>)}
        ELSE FirstInList(1, Len(pod.Spec.Containers),
                 [i \in 1..Len(pod.Spec.Containers) |->
                     validateContainer(pod.Spec.Containers[i], i - 1)])

(***************************************************************************)
(* The inputs.  A run starts from one of three documents -- the minimal    *)
(* valid Pod, a Pod with every optional field and two containers, and the  *)
(* Pod with three independent faults -- and the author changes at most     *)
(* MaxEdits fields of it before the validators read it.                    *)
(***************************************************************************)
Port(v) == MapV([containerPort |-> v])
HttpGet(path, port) == MapV([httpGet |-> MapV([path |-> path, port |-> port])])

MinimalContainer ==
    MapV([name |-> Str(Sweb_app), image |-> Str(ImgOk), resources |-> MapV(EmptyMap)])

MinimalDoc ==
    MapV([apiVersion |-> Str(Sv1), kind |-> Str(SPod),
          metadata |-> MapV([name |-> Str(Sweb)]),
          spec |-> MapV([containers |-> SeqV(<<MinimalContainer>>)])])

FullDoc ==
    MapV([apiVersion |-> Str(Sv1), kind |-> Str(SPod),
          metadata |-> MapV([name |-> Str(Sweb), namespace |-> Str(Sprod),
                             labels |-> MapV([app |-> Str(Sweb), tier |-> Str(Sprod)])]),
          spec |-> MapV([os |-> MapV([name |-> Str(Slinux)]),
                         containers |-> SeqV(<<
                            MapV([name |-> Str(Sweb_app), image |-> Str(ImgOk),
                                  ports |-> SeqV(<<MapV([containerPort |-> IntV(80, <<"8", "0">>),
                                                         protocol |-> Str(STCP)]),
                                                   Port(FloatV(16160, <<"8", "0", "8", "0", ".", "0">>))>>),
                                  resources |-> MapV([requests |-> MapV([cpu |-> IntV(1, <<"1">>),
                                                                         memory |-> Str(S512Mi)]),
                                                      limits |-> MapV([cpu |-> IntV(2, <<"2">>),
                                                                       memory |-> Str(S512Mi)])]),
                                  readinessProbe |-> HttpGet(Str(Shealth), IntV(80, <<"8", "0">>)),
                                  livenessProbe |-> HttpGet(Str(Shealth), IntV(80, <<"8", "0">>))]),
                            MapV([name |-> Str(Sdb), image |-> Str(ImgOk),
                                  resources |-> MapV([requests |-> MapV([cpu |-> IntV(1, <<"1">>)])])])>>)])])

\* bad apiVersion, bad container name, out-of-range port
ThreeFaultDoc ==
    MapV([apiVersion |-> Str(Sv2), kind |-> Str(SPod),
          metadata |-> MapV([name |-> Str(Sweb)]),
          spec |-> MapV([containers |-> SeqV(<<
                            MapV([name |-> Str(SMyApp), image |-> Str(ImgOk),
                                  ports |-> SeqV(<<Port(IntV(0, <<"0">>))>>),
                                  resources |-> MapV(EmptyMap)])>>)])])

Seeds == {MinimalDoc, FullDoc, ThreeFaultDoc}

Filenames == {<<"pod.yaml">>, <<"conf", "/", "pod.yaml">>}

\* Removing a key.
Absent == [t |-> "absent"]

\* The values tried where a port number is expected.
PortValues ==
    {IntV(0, <<"0">>), IntV(1, <<"1">>), IntV(65535, <<"6", "5", "5", "3", "5">>),
     IntV(65536, <<"6", "5", "5", "3", "6">>), IntV(-1, <<"-", "1">>),
     FloatV(0, <<"0", ".", "0">>), FloatV(1, <<"0", ".", "5">>), FloatV(2, <<"1", ".", "0">>),
     FloatV(131070, <<"6", "5", "5", "3", "5", ".", "0">>),
     FloatV(131071, <<"6", "5", "5", "3", "5", ".", "5">>),
     FloatV(131072, <<"6", "5", "5", "3", "6", ".", "0">>), FloatV(-2, <<"-", "1", ".", "0">>),
     UintV, Str(<<"8", "0">>), BoolV, NullV, MapV(EmptyMap), SeqV(<<>>)}

CpuValues ==
    {IntV(2, <<"2">>), IntV(0, <<"0">>), IntV(-1, <<"-", "1">>), FloatV(3, <<"1", ".", "5">>),
     FloatV(4, <<"2", ".", "0">>), UintV, Str(<<"2">>), BoolV, NullV}

MemoryValues ==
    {Str(S512Mi), Str(<<"1", "G", "i">>), Str(<<"6", "4", "K", "i">>), Str(S512), Str(S512MB),
     Str(<<"i">>), IntV(512, S512), NullV}

ResourceMaps ==
    {MapV([cpu |-> v]) : v \in CpuValues}
    \cup {MapV([memory |-> v]) : v \in MemoryValues}
    \cup {MapV([gpu |-> IntV(1, <<"1">>)]), MapV([gpu |-> Str(S512Mi)]),
          MapV([cpu |-> Str(<<"2">>), memory |-> Str(S512)]),
          MapV([cpu |-> IntV(2, <<"2">>), memory |-> Str(S512Mi)])}

\* Container names: three that ^[a-z]+(_[a-z]+)*$ matches, and one for each
\* way of missing it -- an uppercase letter at the start and after an
\* underscore, a hyphen, a digit, a leading, a trailing and a doubled
\* underscore, a lone underscore, a line feed after the name, and the empty
\* string.
MatchingNames == {Sweb, <<"a">>, <<"a", "_", "b", "_", "c">>}
OtherNames ==
    {SMyApp, <<"a", "_", "B">>, <<"a", "-", "b">>, <<"w", "e", "b", "1">>,
     <<"_", "a">>, <<"a", "_">>, <<"a", "_", "_", "b">>, <<"_">>,
     <<"w", "e", "b", "\n">>, SEmpty}
NameValues == {Str(n) : n \in MatchingNames \cup OtherNames}

At(path, values) == {[path |-> path, val |-> v] : v \in values}

Menu ==
    At(<<>>, {Malformed, SeqV(<<>>), NullV})
    \cup At(<<"apiVersion">>, {Absent, Str(Sv2), IntV(1, <<"1">>)})
    \cup At(<<"kind">>, {Absent, Str(SDeployment), IntV(1, <<"1">>)})
    \cup At(<<"metadata">>, {Absent, Str(Sweb)})
    \cup At(<<"spec">>, {Absent, Str(Sweb)})
    \cup At(<<"metadata", "name">>, {Absent, Str(<<>>), IntV(1, <<"1">>)})
    \cup At(<<"metadata", "namespace">>, {Absent, Str(Sprod), IntV(1, <<"1">>)})
    \cup At(<<"metadata", "labels">>,
            {Absent, Str(Sweb), MapV([a |-> IntV(1, <<"1">>), b |-> BoolV]),
             MapV([app |-> Str(Sweb), a |-> IntV(1, <<"1">>)])})
    \cup At(<<"spec", "os">>,
            {Absent, Str(Slinux), IntV(1, <<"1">>), MapV(EmptyMap), MapV([name |-> Str(Swindows)]),
             MapV([name |-> Str(Smac)]), MapV([name |-> IntV(1, <<"1">>)])})
    \cup At(<<"spec", "containers">>, {Absent, Str(Sweb), SeqV(<<>>), SeqV(<<Str(Sweb)>>)})
    \cup At(<<"spec", "containers", "0", "name">>,
            {Absent, IntV(1, <<"1">>)} \cup NameValues)
    \cup At(<<"spec", "containers", "0", "image">>,
            {Absent, Str(ImgNoTag), Str(ImgOtherDomain), Str(ImgBare), IntV(1, <<"1">>)})
    \cup At(<<"spec", "containers", "0", "ports">>,
            {Absent, Str(Sweb), SeqV(<<Str(Sweb)>>), SeqV(<<MapV(EmptyMap)>>),
             SeqV(<<MapV([containerPort |-> IntV(80, <<"8", "0">>), protocol |-> Str(SSCTP)])>>),
             SeqV(<<MapV([containerPort |-> IntV(80, <<"8", "0">>), protocol |-> Str(SUDP)])>>),
             SeqV(<<MapV([containerPort |-> IntV(80, <<"8", "0">>), protocol |-> IntV(1, <<"1">>)])>>),
             SeqV(<<Port(IntV(0, <<"0">>)), Port(IntV(65536, <<"6", "5", "5", "3", "6">>))>>)}
            \cup {SeqV(<<Port(v)>>) : v \in PortValues})
    \cup At(<<"spec", "containers", "0", "resources">>,
            {Absent, Str(Sweb), NullV,
             MapV([requests |-> MapV([cpu |-> Str(<<"2">>)]),
                   limits |-> MapV([cpu |-> Str(<<"2">>)])])})
    \cup At(<<"spec", "containers", "0", "resources", "requests">>, {Str(Sweb)} \cup ResourceMaps)
    \cup At(<<"spec", "containers", "0", "resources", "limits">>,
            {Str(Sweb), MapV([cpu |-> Str(<<"2">>)]), MapV([cpu |-> FloatV(3, <<"1", ".", "5">>)]),
             MapV([memory |-> Str(S512)]), MapV([gpu |-> IntV(1, <<"1">>)])})
    \cup At(<<"spec", "containers", "0", "readinessProbe">>,
            {Absent, Str(Sweb), MapV(EmptyMap), MapV([httpGet |-> Str(Sweb)]),
             MapV([httpGet |-> MapV(EmptyMap)]),
             HttpGet(Str(Srel), IntV(80, <<"8", "0">>)),
             HttpGet(IntV(1, <<"1">>), IntV(80, <<"8", "0">>))}
            \cup {HttpGet(Str(Shealth), v) : v \in PortValues})
    \cup At(<<"spec", "containers", "0", "livenessProbe">>,
            {Absent, Str(Sweb), HttpGet(Str(Shealth), IntV(0, <<"0">>)),
             HttpGet(Str(Shealth), FloatV(1, <<"0", ".", "5">>))})
    \cup At(<<"spec", "containers", "1", "name">>,
            {Str(SMyApp), Str(<<"a", "_">>), Str(SEmpty), Str(<<"a">>)})
    \cup At(<<"spec", "containers", "1", "resources", "requests">>, {MapV([cpu |-> Str(<<"2">>)])})
    \cup At(<<"spec", "containers", "1", "livenessProbe">>,
            {HttpGet(Str(Shealth), IntV(0, <<"0">>))})

\* The index a path element names in a sequence of n items (0 when none).
IndexOf(h, n) ==
    IF \E i \in 1..n : Ix(i - 1) = h THEN CHOOSE i \in 1..n : Ix(i - 1) = h ELSE 0

\* Whether the field at `path` can be set (or, for Absent, removed) in v.
RECURSIVE CanPut(_, _, _)
CanPut(v, path, new) ==
    IF path = <<>> THEN TRUE
    ELSE LET h == Head(path)
         IN  CASE v.t = "map" ->
                    IF Len(path) = 1 THEN new # Absent \/ h \in DOMAIN v.m
                    ELSE h \in DOMAIN v.m /\ CanPut(v.m[h], Tail(path), new)
               [] v.t = "seq" ->
                    /\ IndexOf(h, Len(v.items)) # 0
                    /\ (Len(path) > 1 \/ new # Absent)
                    /\ CanPut(v.items[IndexOf(h, Len(v.items))], Tail(path), new)
               [] OTHER -> FALSE

\* The document with the field at `path` set to `new`, or removed.
RECURSIVE Put(_, _, _)
Put(v, path, new) ==
    IF path = <<>> THEN new
    ELSE LET h == Head(path)
         IN  IF v.t = "map"
             THEN IF Len(path) = 1
                  THEN IF new = Absent
                       THEN MapV([k \in DOMAIN v.m \ {h} |-> v.m[k]])
                       ELSE MapV([k \in DOMAIN v.m \cup {h} |-> IF k = h THEN new ELSE v.m[k]])
                  ELSE MapV([k \in DOMAIN v.m |->
                                IF k = h THEN Put(v.m[k], Tail(path), new) ELSE v.m[k]])
             ELSE SeqV([i \in 1..Len(v.items) |->
                           IF i = IndexOf(h, Len(v.items))
                           THEN Put(v.items[i], Tail(path), new)
                           ELSE v.items[i]])

(***************************************************************************)
(* The state machine: the document is edited, then read -- by the          *)
(* collect-all validator up to MaxRuns times, and by the fail-fast         *)
(* validator.  results holds what each collect-all run returned, ff what   *)
(* the fail-fast run returned.                                             *)
(***************************************************************************)
Init ==
    /\ doc \in Seeds
    /\ filename \in Filenames
    /\ edits = 0
    /\ results = <<>>
    /\ ff = <<>>

Edit ==
    /\ results = <<>> /\ ff = <<>>
    /\ edits < MaxEdits
    /\ \E e \in Menu :
          /\ CanPut(doc, e.path, e.val)
          /\ doc' = Put(doc, e.path, e.val)
    /\ doc' # doc
    /\ edits' = edits + 1
    /\ UNCHANGED <<filename, results, ff>>

CollectAll ==
    /\ Len(results) < MaxRuns
    /\ \E r \in validateYAML(doc, filename) : results' = Append(results, r)
    /\ UNCHANGED <<doc, filename, edits, ff>>

FailFast ==
    /\ ff = <<>>
    /\ \E e \in validateYAMLFailFast(doc) : ff' = <<e>>
    /\ UNCHANGED <<doc, filename, edits, results>>

Next == Edit \/ CollectAll \/ FailFast

Spec == Init /\ [][Next]_vars

(***************************************************************************)
(* What the claims speak of.                                               *)
(***************************************************************************)
\* The collect-all runs made so far.
Runs == 1..Len(results)

\* yaml.Unmarshal accepts the bytes as a top-level mapping (or an empty document).
Parseable == doc.t \in {"map", "null"}

\* The containers the validators walk.
ContainersOf(d) ==
    IF /\ d.t = "map" /\ "spec" \in DOMAIN d.m /\ d.m["spec"].t = "map"
       /\ "containers" \in DOMAIN d.m["spec"].m /\ d.m["spec"].m["containers"].t = "seq"
    THEN d.m["spec"].m["containers"].items
    ELSE <<>>

\* Every place of the document where a port number stands: its path and its value.
PortSites(d) ==
    LET cs == ContainersOf(d)
        portsOf(i) ==
            LET c == cs[i].m
                items == IF "ports" \in DOMAIN c /\ c["ports"].t = "seq" THEN c["ports"].items ELSE <<>>
            IN  {[at |-> ContainerAt(i - 1) \o <<"ports", Ix(j - 1), "containerPort">>,
                  v |-> items[j].m["containerPort"]] :
                    j \in {j \in 1..Len(items) : items[j].t = "map" /\ "containerPort" \in DOMAIN items[j].m}}
        probesOf(i) ==
            LET c == cs[i].m
            IN  {[at |-> ContainerAt(i - 1) \o <<p, "httpGet", "port">>,
                  v |-> c[p].m["httpGet"].m["port"]] :
                    p \in {p \in {"readinessProbe", "livenessProbe"} :
                            /\ p \in DOMAIN c /\ c[p].t = "map"
                            /\ "httpGet" \in DOMAIN c[p].m /\ c[p].m["httpGet"].t = "map"
                            /\ "port" \in DOMAIN c[p].m["httpGet"].m}}
    IN  UNION {portsOf(i) \cup probesOf(i) : i \in {i \in 1..Len(cs) : cs[i].t = "map"}}

\* Every entry of a resources.requests or resources.limits mapping.
ResourceSites(d) ==
    LET cs == ContainersOf(d)
        entriesOf(i) ==
            LET c == cs[i].m
                r == IF "resources" \in DOMAIN c /\ c["resources"].t = "map" THEN c["resources"].m ELSE EmptyMap
            IN  UNION {{[at |-> ContainerAt(i - 1) \o <<"resources", rt, key>>,
                         key |-> key, v |-> r[rt].m[key]] : key \in DOMAIN r[rt].m} :
                            rt \in {rt \in {"requests", "limits"} : rt \in DOMAIN r /\ r[rt].t = "map"}}
    IN  UNION {entriesOf(i) : i \in {i \in 1..Len(cs) : cs[i].t = "map"}}

\* The diagnostics of a list that were raised at a field path.
DiagsAt(ds, at) == {i \in 1..Len(ds) : ds[i].at = at}

\* A number v with 1 <= v <= 65535, in either representation.
PortNumberOk(v) ==
    \/ v.t = "int" /\ 1 <= v.n /\ v.n <= 65535
    \/ v.t = "float" /\ 2 <= v.h /\ v.h <= 2 * 65535

\* The class of a violation, read off the message.
ViolationKind(d) ==
    CASE d.pred \in {" is required", "at least one container is required"} -> "required"
      [] d.pred \in {" must be string", " must be a string", " must be an object", " must be an array",
                     " must be integer", " must be an integer", " must be int"} -> "type"
      [] d.pred = ": unknown resource type" -> "unknown"
      [] d.pred \in {"Validation failed: invalid YAML format: %v", "invalid YAML format: %v"} -> "parse"
      [] OTHER -> "domain"

(***************************************************************************)
(* The schema of the data model, for C1.                                   *)
(***************************************************************************)
IsStr(m, k) == k \in DOMAIN m /\ m[k].t = "str"
OptStr(m, k) == k \in DOMAIN m => m[k].t = "str"

SchemaPort(v) ==
    /\ v.t = "map"
    /\ "containerPort" \in DOMAIN v.m /\ PortNumberOk(v.m["containerPort"])
    /\ "protocol" \in DOMAIN v.m => (v.m["protocol"].t = "str" /\ v.m["protocol"].raw \in {STCP, SUDP})

SchemaResourceEntry(key, v) ==
    CASE key = "cpu" -> v.t \in {"int", "float"}
      [] key = "memory" ->
            v.t = "str" /\ Len(v.raw) >= 2
            /\ SubSeq(v.raw, Len(v.raw) - 1, Len(v.raw)) \in {<<"G", "i">>, <<"M", "i">>, <<"K", "i">>}
      [] OTHER -> FALSE

SchemaResourceMap(m, k) ==
    k \in DOMAIN m => (m[k].t = "map" /\ \A key \in DOMAIN m[k].m : SchemaResourceEntry(key, m[k].m[key]))

SchemaProbe(m, k) ==
    k \in DOMAIN m =>
        /\ m[k].t = "map"
        /\ "httpGet" \in DOMAIN m[k].m /\ m[k].m["httpGet"].t = "map"
        /\ LET g == m[k].m["httpGet"].m
           IN  /\ IsStr(g, "path") /\ Len(g["path"].raw) >= 1 /\ g["path"].raw[1] = "/"
               /\ "port" \in DOMAIN g /\ PortNumberOk(g["port"])

SchemaContainer(v) ==
    /\ v.t = "map"
    /\ IsStr(v.m, "name") /\ MatchSnakeCase(v.m["name"].raw)
    /\ IsStr(v.m, "image") /\ HasPrefix(v.m["image"].raw, RegistryPrefix) /\ Contains(v.m["image"].raw, ":")
    /\ "ports" \in DOMAIN v.m =>
            (v.m["ports"].t = "seq" /\ \A j \in 1..Len(v.m["ports"].items) : SchemaPort(v.m["ports"].items[j]))
    /\ "resources" \in DOMAIN v.m /\ v.m["resources"].t = "map"
    /\ SchemaResourceMap(v.m["resources"].m, "requests")
    /\ SchemaResourceMap(v.m["resources"].m, "limits")
    /\ SchemaProbe(v.m, "readinessProbe")
    /\ SchemaProbe(v.m, "livenessProbe")

SchemaValid(d) ==
    /\ d.t = "map"
    /\ IsStr(d.m, "apiVersion") /\ d.m["apiVersion"].raw = Sv1
    /\ IsStr(d.m, "kind") /\ d.m["kind"].raw = SPod
    /\ "metadata" \in DOMAIN d.m /\ d.m["metadata"].t = "map"
    /\ LET md == d.m["metadata"].m
       IN  /\ IsStr(md, "name") /\ md["name"].raw # <<>>
           /\ OptStr(md, "namespace")
           /\ "labels" \in DOMAIN md =>
                (md["labels"].t = "map" /\ \A k \in DOMAIN md["labels"].m : md["labels"].m[k].t = "str")
    /\ "spec" \in DOMAIN d.m /\ d.m["spec"].t = "map"
    /\ LET sp == d.m["spec"].m
       IN  /\ "os" \in DOMAIN sp =>
                (sp["os"].t = "map" /\ IsStr(sp["os"].m, "name") /\ sp["os"].m["name"].raw \in {Slinux, Swindows})
           /\ "containers" \in DOMAIN sp /\ sp["containers"].t = "seq"
           /\ Len(sp["containers"].items) >= 1
           /\ \A i \in 1..Len(sp["containers"].items) : SchemaContainer(sp["containers"].items[i])

\* C1: in collect-all mode, for every parseable document the diagnostic
\* list is empty if and only if the document satisfies every rule of the
\* schema, and the minimal valid document yields no diagnostic.
C1_EmptyIffSchemaValid ==
    \A k \in Runs :
        /\ Parseable => (results[k] = <<>> <=> SchemaValid(doc))
        /\ doc = MinimalDoc => results[k] = <<>>

(***************************************************************************)
(* C2: the six required fields, and the documents that miss exactly one.   *)
(***************************************************************************)
RequiredFields ==
    {<<"apiVersion">>, <<"kind">>, <<"metadata">>, <<"spec">>,
     <<"metadata", "name">>, <<"spec", "containers">>}

\* The spellings under which a message names a required field: the field's
\* own path, its last element, or a path that goes through the field.
SpellingsOf(field) ==
    CASE field = <<"apiVersion">> -> {"apiVersion"}
      [] field = <<"kind">> -> {"kind"}
      [] field = <<"metadata">> -> {"metadata", "metadata.name"}
      [] field = <<"spec">> -> {"spec", "spec.containers"}
      [] field = <<"metadata", "name">> -> {"metadata.name", "name"}
      [] field = <<"spec", "containers">> -> {"spec.containers", "containers"}

NamesField(d, field) == d.subject \in SpellingsOf(field)

\* The valid document the current one is, less the field.
MissingOnly(field) == \E s \in {MinimalDoc, FullDoc} : doc = Put(s, field, Absent)

\* C2: a document that misses exactly one of the six required fields and
\* is otherwise valid gets at least one diagnostic, and a diagnostic that
\* names the missing field -- from the collect-all validator and from the
\* fail-fast one.
C2_MissingFieldIsNamed ==
    \A field \in RequiredFields :
        MissingOnly(field) =>
            /\ \A k \in Runs : \E i \in 1..Len(results[k]) : NamesField(results[k][i], field)
            /\ ff # <<>> => (ff[1] # Nil /\ NamesField(ff[1], field))

\* C3: on every parseable document the fail-fast validator reports an error
\* exactly when the collect-all list is not empty, and its error is about
\* the same field and the same kind of violation as the first collect-all
\* diagnostic.
C3_FailFastIsFirstOfCollectAll ==
    \A k \in Runs :
        (Parseable /\ ff # <<>>) =>
            /\ ff[1] # Nil <=> results[k] # <<>>
            /\ ff[1] # Nil =>
                    /\ ff[1].at = results[k][1].at
                    /\ ViolationKind(ff[1]) = ViolationKind(results[k][1])

\* C5: two collect-all runs on the same bytes and display name return the
\* same diagnostics in the same order.
C5_RunsAgree ==
    \A j \in Runs : \A k \in Runs : Texts(results[j]) = Texts(results[k])

\* C6: a field contributes at most one diagnostic to the collect-all list,
\* and a document whose only fault is kind: Deployment gets exactly one
\* diagnostic, about kind.
C6_OneDiagnosticPerField ==
    \A k \in Runs :
        /\ \A i \in 1..Len(results[k]) : \A j \in 1..Len(results[k]) :
                i # j => results[k][i].at # results[k][j].at
        /\ (\E s \in {MinimalDoc, FullDoc} : doc = Put(s, <<"kind">>, Str(SDeployment))) =>
                (Len(results[k]) = 1 /\ results[k][1].subject = "kind")

\* C8: wherever a port number is expected, the collect-all validator raises
\* no diagnostic on the value exactly when it is a number v, integer or
\* floating-point, with 1 <= v <= 65535.
C8_PortAcceptedIffInRange ==
    \A k \in Runs : \A s \in PortSites(doc) :
        DiagsAt(results[k], s.at) = {} <=> PortNumberOk(s.v)

\* Whether a field path lies inside container number index.
InContainer(at, index) == Len(at) > 3 /\ SubSeq(at, 1, 3) = ContainerAt(index)

\* C10: a diagnostic about a field inside container i carries the index i,
\* and two diagnostics raised at different field paths are different strings.
C10_DiagnosticNamesFieldPath ==
    \A k \in Runs : \A i \in 1..Len(results[k]) :
        /\ \A index \in 0..4 :
                InContainer(results[k][i].at, index) =>
                    \E a \in 1..Len(results[k][i].args) : results[k][i].args[a] = Itoa(index)
        /\ \A j \in 1..Len(results[k]) :
                results[k][i].at # results[k][j].at => Text(results[k][i]) # Text(results[k][j])

(***************************************************************************)
(* C4: the place of a field path in the traversal order, as a tuple        *)
(* <<top-level field, field of metadata or spec, container, field of the   *)
(* container, port>> that the order compares from the left.                *)
(***************************************************************************)
IndexNumber(h) == CHOOSE i \in 0..4 : Ix(i) = h

Elem(at, i) == IF i <= Len(at) THEN at[i] ELSE ""

RankKey(at) ==
    LET top == CASE Elem(at, 1) = "apiVersion" -> 1
                 [] Elem(at, 1) = "kind" -> 2
                 [] Elem(at, 1) = "metadata" -> 3
                 [] Elem(at, 1) = "spec" -> 4
                 [] OTHER -> 0
        sub == CASE top = 3 /\ Elem(at, 2) = "name" -> 1
                 [] top = 3 /\ Elem(at, 2) = "namespace" -> 2
                 [] top = 3 /\ Elem(at, 2) = "labels" -> 3
                 [] top = 4 /\ Elem(at, 2) = "os" -> 1
                 [] top = 4 /\ Elem(at, 2) = "containers" -> 2
                 [] OTHER -> 0
        inContainer == top = 4 /\ sub = 2 /\ Len(at) >= 3
        container == IF inContainer THEN IndexNumber(at[3]) + 1 ELSE 0
        fld == CASE inContainer /\ Elem(at, 4) = "name" -> 1
                 [] inContainer /\ Elem(at, 4) = "image" -> 2
                 [] inContainer /\ Elem(at, 4) = "ports" -> 3
                 [] inContainer /\ Elem(at, 4) = "resources" -> 4
                 [] inContainer /\ Elem(at, 4) = "readinessProbe" -> 5
                 [] inContainer /\ Elem(at, 4) = "livenessProbe" -> 6
                 [] OTHER -> 0
        port == IF fld = 3 /\ Len(at) >= 5 THEN IndexNumber(at[5]) + 1 ELSE 0
    IN  <<top, sub, container, fld, port>>

\* a comes no later than b
LexLeq(a, b) ==
    \E k \in 1..(Len(a) + 1) :
        /\ \A j \in 1..(k - 1) : a[j] = b[j]
        /\ k = Len(a) + 1 \/ a[k] < b[k]

\* The strings the three-fault document must yield, in this order.
ThreeFaultTexts ==
    << Text(Diag("%s: ", "apiVersion", " must be 'v1'", <<filename>>, <<>>)),
       Text(Diag("%s: ", "container[%d].name", " must be in snake_case format",
                 <<filename, <<"0">>>>, <<>>)),
       Text(Diag("%s: ", "container[%d].ports[%d].containerPort", " value out of range",
                 <<filename, <<"0">>, <<"0">>>>, <<>>)) >>

C7_ParseFailureOnly ==
    ~Parseable =>
        /\ \A k \in Runs :
                /\ Len(results[k]) = 1
                /\ results[k][1].pred = "Validation failed: invalid YAML format: %v"
                /\ results[k][1].subject = "" /\ results[k][1].at = <<>>
        /\ ff # <<>> =>
                /\ ff[1].pred = "invalid YAML format: %v"
                /\ ff[1].subject = "" /\ ff[1].at = <<>>

\* Malformed bytes have gone through both validators.
C7_Witness ==
    /\ doc = Malformed
    /\ Len(results) >= 1
    /\ ff # <<>>

(***************************************************************************)
(* C9: which resource entries are at fault.                                *)
(***************************************************************************)
MemoryOk(v) ==
    /\ v.t = "str" /\ Len(v.raw) >= 2
    /\ SubSeq(v.raw, Len(v.raw) - 1, Len(v.raw)) \in {<<"G", "i">>, <<"M", "i">>, <<"K", "i">>}

\* As the claim has it: cpu takes any number.
OffendingAsClaimed(s) ==
    CASE s.key = "cpu" -> s.v.t \notin {"int", "uint", "float"}
      [] s.key = "memory" -> ~MemoryOk(s.v)
      [] OTHER -> TRUE

\* Collect-all: cpu takes what yaml.v3 resolves to an int or a float64.
OffendingCollectAll(s) ==
    CASE s.key = "cpu" -> s.v.t \notin {"int", "float"}
      [] s.key = "memory" -> ~MemoryOk(s.v)
      [] OTHER -> TRUE

\* Fail-fast: cpu takes a positive int only.
OffendingFailFast(s) ==
    CASE s.key = "cpu" -> ~(s.v.t = "int" /\ s.v.n > 0)
      [] s.key = "memory" -> ~MemoryOk(s.v)
      [] OTHER -> TRUE

\* C9: in both validators an entry of resources.requests or
\* resources.limits is at fault exactly when its key is cpu and its value
\* is not a number, its key is memory and its value is not a string ending
\* in Gi, Mi or Ki, or its key is neither; collect-all reports each entry
\* at fault once.
C9_ResourceRuleAsClaimed ==
    /\ \A k \in Runs : \A s \in ResourceSites(doc) :
            Cardinality(DiagsAt(results[k], s.at)) = IF OffendingAsClaimed(s) THEN 1 ELSE 0
    /\ ff # <<>> =>
            \A s \in ResourceSites(doc) :
                /\ ff[1].at = s.at => OffendingAsClaimed(s)
                /\ ff[1] = Nil => ~OffendingAsClaimed(s)

\* What the two validators do with a resource entry: collect-all reports it
\* once exactly when its key is cpu and its value is neither an int nor a
\* float64, its key is memory and its value is not a string ending in Gi,
\* Mi or Ki, or its key is neither; fail-fast rejects the same entries and
\* also every cpu value that is not a positive int (a float, zero, a
\* negative number).
ResourceRuleOfTheCode ==
    /\ \A k \in Runs : \A s \in ResourceSites(doc) :
            Cardinality(DiagsAt(results[k], s.at)) = IF OffendingCollectAll(s) THEN 1 ELSE 0
    /\ ff # <<>> =>
            \A s \in ResourceSites(doc) :
                /\ ff[1].at = s.at => OffendingFailFast(s)
                /\ ff[1] = Nil => ~OffendingFailFast(s)

(***************************************************************************)
(* C11: the names of the containers.                                       *)
(***************************************************************************)
\* Every container that has a string for a name: its index (from 0), the
\* path of its name and the name.
NameSites(d) ==
    LET cs == ContainersOf(d)
    IN  {[index |-> i - 1, at |-> ContainerAt(i - 1) \o <<"name">>, name |-> cs[i].m["name"].raw] :
            i \in {i \in 1..Len(cs) : cs[i].t = "map" /\ IsStr(cs[i].m, "name")}}

\* ^[a-z]+(_[a-z]+)*$ read as a grammar: one or more words of lowercase
\* letters, joined by single underscores.
IsSnakeCase(s) ==
    /\ s # <<>>
    /\ \A i \in 1..Len(s) : s[i] \in LowerLetters \cup {"_"}
    /\ s[1] # "_" /\ s[Len(s)] # "_"
    /\ \A i \in 1..(Len(s) - 1) : ~(s[i] = "_" /\ s[i + 1] = "_")

\* What fail-fast returns when the name at a site is replaced by a name that
\* passes: the errors of the checks other than this name's.
WithoutNameFault(s) == validateYAMLFailFast(Put(doc, s.at, Str(Sweb)))

\* C11: for every container whose name is a string, a name matching
\* ^[a-z]+(_[a-z]+)*$ gets no name diagnostic and every other string, the
\* empty one included, gets one. Collect-all lists the diagnostic; fail-fast
\* never returns it for a matching name, and for any other name returns an
\* error that is this diagnostic unless a check before the name has failed.
C11_SnakeCaseName ==
    \A s \in NameSites(doc) :
        /\ \A k \in Runs :
                Cardinality(DiagsAt(results[k], s.at)) = IF IsSnakeCase(s.name) THEN 0 ELSE 1
        /\ ff # <<>> =>
                /\ IsSnakeCase(s.name) => ff[1].at # s.at
                /\ ~IsSnakeCase(s.name) =>
                        /\ ff[1] # Nil
                        /\ ff[1].at = s.at \/ ff[1] \in WithoutNameFault(s) \ {Nil}
                        /\ ff[1].at = s.at => ff[1].subject = "container[%d].name"

\* Both validators have reported a name that is lowercase words with a
\* doubled underscore between them.
C11_Witness ==
    /\ Len(results) >= 1
    /\ ff # <<>>
    /\ \E s \in NameSites(doc) :
            /\ s.name = <<"a", "_", "_", "b">>
            /\ DiagsAt(results[1], s.at) # {}
            /\ ff[1].at = s.at

=============================================================================
